---- MODULE Spec2Model ----
(***************************************************************************)
(* RideBite server: the connection manager (config/database) and the       *)
(* Express request handlers of app.ts, over a document store with          *)
(* single-document atomicity.                                              *)
(*                                                                         *)
(* A handler is modelled per request slot: the slot's record holds the     *)
(* request (op, path id, body), the handler's position (pc), its locals    *)
(* and the response status code once sent (resp, 0 = not yet answered).    *)
(* One action is the code that runs between two awaits: the store call the *)
(* handler awaits is applied by the store and the continuation runs up to  *)
(* the next await or to the response.                                      *)
(***************************************************************************)
EXTENDS Integers, Sequences, FiniteSets, TLC

VARIABLES
    now,          \* the wall clock, epoch milliseconds (Date.now())
    alive,        \* FALSE once process.exit(1) has run
    db,           \* database.ts `db`: 0 = undefined, n = handle of client n
    client,       \* database.ts `client`: 0 = undefined, n = n-th MongoClient
    opened,       \* number of MongoClient connections opened so far
    conn,         \* per connectToDatabase call: its position and return value
    probe,        \* outcome of the latest direct getDb() call
    restaurants,  \* collection restaurants: set of _id
    menu_items,   \* collection menu_items: set of documents
    orders,       \* collection orders: sequence of documents, in insertion order
    rides,        \* collection rides: sequence of documents, in insertion order
    raiders,      \* collection raiders: set of documents
    minted,       \* number of ObjectIds generated for raiders so far
    req           \* per request slot: the handler's request, locals, response

connVars  == <<db, client, opened, conn>>
storeVars == <<restaurants, menu_items, orders, rides, raiders, minted>>
vars == <<now, alive, db, client, opened, conn, probe,
          restaurants, menu_items, orders, rides, raiders, minted, req>>

----------------------------------------------------------------------------
(* Bounds *)

MaxConnCalls == 3        \* connectToDatabase calls in one process
MaxReqs      == 2        \* request slots (handlers in flight at once)
MaxTicks     == 2        \* clock advance explored, in milliseconds
MaxSyncTicks == 1        \* clock advance inside one synchronous stretch
MaxOrders    == 2        \* orders inserted
MaxRides     == 1        \* rides inserted
RandDenom    == 1000     \* Math.random() is drawn as k / RandDenom
Epoch0       == 5000000  \* clock value at process start

ConnCalls == 1..MaxConnCalls
Startup   == {1}         \* the single call app.ts makes at load
Reqs      == 1..MaxReqs
MaxClock  == Epoch0 + MaxTicks

\* the draws of Math.random() explored: both ends and the middle of [0, 1)
RandNums == {0, RandDenom \div 2, RandDenom - 1}

----------------------------------------------------------------------------
(* Connection manager *)

IdleConn == [pc |-> "idle", ret |-> 0]

getDb_NoCheck == [threw |-> FALSE, handle |-> db]

\* getDb(): throws 'Database not initialized...' while db is undefined,
\* otherwise returns db
getDb ==
    IF db = 0 THEN [threw |-> TRUE, handle |-> 0]
              ELSE [threw |-> FALSE, handle |-> db]

\* connectToDatabase, up to the await of client.connect()
ConnectCall(c) ==
    /\ alive
    /\ conn[c].pc = "idle"
    /\ IF db # 0
         THEN /\ conn' = [conn EXCEPT ![c] = [pc |-> "returned", ret |-> db]]
              /\ UNCHANGED <<client, opened>>
         ELSE /\ opened' = opened + 1
              /\ client' = opened + 1
              /\ conn' = [conn EXCEPT ![c] = [pc |-> "awaiting", ret |-> 0]]
    /\ UNCHANGED <<now, alive, db, probe, storeVars, req>>

\* client.connect() resolved: db = client.db(DB_NAME); return db
ConnectResolve(c) ==
    /\ alive
    /\ conn[c].pc = "awaiting"
    /\ db' = client
    /\ conn' = [conn EXCEPT ![c] = [pc |-> "returned", ret |-> client]]
    /\ UNCHANGED <<now, alive, client, opened, probe, storeVars, req>>

\* client.connect() rejected: the catch block logs and calls process.exit(1)
ConnectFail(c) ==
    /\ alive
    /\ conn[c].pc = "awaiting"
    /\ alive' = FALSE
    /\ conn' = [conn EXCEPT ![c] = [pc |-> "exited", ret |-> 0]]
    /\ UNCHANGED <<now, db, client, opened, probe, storeVars, req>>

\* a direct call of getDb(), its outcome recorded
CallGetDb ==
    /\ alive
    /\ probe.calls < MaxConnCalls
    /\ probe' = [calls |-> probe.calls + 1,
                 threw |-> getDb.threw,
                 handle |-> getDb.handle]
    /\ UNCHANGED <<now, alive, connVars, storeVars, req>>

\* the clock advances by one millisecond
Tick ==
    /\ alive
    /\ now < MaxClock
    /\ now' = now + 1
    /\ UNCHANGED <<alive, connVars, probe, storeVars, req>>

----------------------------------------------------------------------------
(* Values of a JSON request body, and the store's identifiers *)

Undef  == [t |-> "undefined", s |-> "", n |-> 0]   \* the field is absent
Str(x) == [t |-> "string", s |-> x, n |-> 0]
Num(k) == [t |-> "number", s |-> "", n |-> k]

\* JavaScript !v
Falsy(v) ==
    \/ v.t = "undefined"
    \/ v.t = "string" /\ v.s = ""
    \/ v.t = "number" /\ v.n = 0

\* a || '' on an optional string field
OrEmpty(v) == IF Falsy(v) THEN "" ELSE v.s

\* the 24 hex digit form of the n-th ObjectId
HexId(n) == "00000000000000000000000" \o ToString(n)

\* new ObjectId(s): the identifier, or 0 when the constructor throws
ObjectId(s) ==
    IF \E n \in 1..9 : HexId(n) = s
      THEN CHOOSE n \in 1..9 : HexId(n) = s
      ELSE 0

\* parseFloat on the amounts a body carries
parseFloat(v) ==
    CASE v.t = "number" -> v.n
      [] v.t = "string" /\ v.s = "30" -> 30
      [] v.t = "string" /\ v.s = "12abc" -> 12
      [] OTHER -> 0

IdleReq == [op |-> "idle", pc |-> "idle", resp |-> 0]

\* res.status(code).json(...) ends the handler
Respond(r, q, code) == req' = [req EXCEPT ![r] = [q EXCEPT !.pc = "done", !.resp = code]]

Catch_Swallow(r, q) == req' = [req EXCEPT ![r] = [q EXCEPT !.pc = "caught"]]

\* the handler's catch block: res.status(500).json(...) ends the handler
Catch(r, q) == req' = [req EXCEPT ![r] = [q EXCEPT !.pc = "caught", !.resp = 500]]

\* the slot is free for the next request
Forget(r) ==
    /\ alive
    /\ req[r].resp # 0
    /\ req' = [req EXCEPT ![r] = IdleReq]
    /\ UNCHANGED <<now, alive, connVars, probe, storeVars>>

----------------------------------------------------------------------------
(* DELETE /api/restaurants/:id and DELETE /api/menu-items/:id *)

MaxRestaurants == 2
MaxMenuItems   == 2

\* the path ids explored: every identifier in use, a dangling one, a malformed one
PathIds == {HexId(n) : n \in 1..(MaxRestaurants + 1)} \cup {"not-an-id"}

deleteMany_NoFilter(coll, oid) == {}

\* collection.deleteMany({ restaurantId: oid }) on menu_items
deleteMany(coll, oid) == {m \in coll : m.restaurantId # oid}

\* collection.deleteOne({ _id: oid }) on menu_items
deleteOneItem(coll, oid) == {m \in coll : m._id # oid}

\* the handler up to the await of deleteOne
DeleteRestaurantStart(r) ==
    /\ alive
    /\ req[r].op = "idle"
    /\ \E id \in PathIds :
         LET q == [op |-> "DeleteRestaurant", pc |-> "deleteOne", resp |-> 0,
                   id |-> id, deletedCount |-> 0]
         IN  IF getDb.threw \/ ObjectId(id) = 0
               THEN Catch(r, q)
               ELSE req' = [req EXCEPT ![r] = q]
    /\ UNCHANGED <<now, alive, connVars, probe, storeVars>>

\* deleteOne applied; 404 when nothing matched, else up to the await of deleteMany
DeleteRestaurantOne(r) ==
    /\ alive
    /\ req[r].op = "DeleteRestaurant" /\ req[r].pc = "deleteOne"
    /\ LET oid == ObjectId(req[r].id)
       IN  IF oid \in restaurants
             THEN /\ restaurants' = restaurants \ {oid}
                  /\ req' = [req EXCEPT ![r].pc = "deleteMany", ![r].deletedCount = 1]
             ELSE /\ UNCHANGED restaurants
                  /\ Respond(r, req[r], 404)
    /\ UNCHANGED <<now, alive, connVars, probe, menu_items, orders, rides,
                 raiders, minted>>

DeleteRestaurantMany_Orders(r) ==
    /\ alive
    /\ req[r].op = "DeleteRestaurant" /\ req[r].pc = "deleteMany"
    /\ LET oid == ObjectId(req[r].id)
       IN  /\ menu_items' = deleteMany(menu_items, oid)
           /\ orders' = SelectSeq(orders, LAMBDA o : o.doc.restaurantId # oid)
           /\ Respond(r, [req[r] EXCEPT !.deletedCount =
                             Cardinality(menu_items \ deleteMany(menu_items, oid))], 200)
    /\ UNCHANGED <<now, alive, connVars, probe, restaurants, rides, raiders, minted>>

\* deleteMany applied; 200
DeleteRestaurantMany(r) ==
    /\ alive
    /\ req[r].op = "DeleteRestaurant" /\ req[r].pc = "deleteMany"
    /\ LET oid == ObjectId(req[r].id)
       IN  /\ menu_items' = deleteMany(menu_items, oid)
           /\ Respond(r, [req[r] EXCEPT !.deletedCount =
                             Cardinality(menu_items \ deleteMany(menu_items, oid))], 200)
    /\ UNCHANGED <<now, alive, connVars, probe, restaurants, orders, rides,
                 raiders, minted>>

StoreFail_Rollback(r) ==
    /\ alive
    /\ req[r].resp = 0
    /\ req[r].pc \in {"deleteOne", "deleteMany", "insertOne", "findOne", "updateOne",
                    "toArray", "findRestaurant"}
    /\ Catch(r, req[r])
    /\ restaurants' = IF req[r].pc = "deleteMany"
                        THEN restaurants \cup {ObjectId(req[r].id)}
                        ELSE restaurants
    /\ UNCHANGED <<now, alive, connVars, probe, menu_items, orders, rides,
                 raiders, minted>>

\* an awaited store call of any handler rejects: the catch block answers 500
StoreFail(r) ==
    /\ alive
    /\ req[r].resp = 0
    /\ req[r].pc \in {"deleteOne", "deleteMany", "insertOne", "findOne", "updateOne",
                    "toArray", "findRestaurant"}
    /\ Catch(r, req[r])
    /\ UNCHANGED <<now, alive, connVars, probe, storeVars>>

DeleteMenuItemStart(r) ==
    /\ alive
    /\ req[r].op = "idle"
    /\ \E id \in PathIds :
         LET q == [op |-> "DeleteMenuItem", pc |-> "deleteOne", resp |-> 0, id |-> id]
         IN  IF getDb.threw \/ ObjectId(id) = 0
               THEN Catch(r, q)
               ELSE req' = [req EXCEPT ![r] = q]
    /\ UNCHANGED <<now, alive, connVars, probe, storeVars>>

DeleteMenuItemOne(r) ==
    /\ alive
    /\ req[r].op = "DeleteMenuItem" /\ req[r].pc = "deleteOne"
    /\ LET oid == ObjectId(req[r].id)
       IN  IF \E m \in menu_items : m._id = oid
             THEN /\ menu_items' = deleteOneItem(menu_items, oid)
                  /\ Respond(r, req[r], 200)
             ELSE /\ UNCHANGED menu_items
                  /\ Respond(r, req[r], 404)
    /\ UNCHANGED <<now, alive, connVars, probe, restaurants, orders, rides,
                 raiders, minted>>

----------------------------------------------------------------------------
(* POST /api/orders *)

DeliveryMinutes == 45
MsPerMinute     == 60000

\* clock advances that can fall between two reads of one synchronous stretch
SyncTicks == 0..MaxSyncTicks

\* 'RB' + Date.now()
OrderIdOf(t) == "RB" \o ToString(t)

EstimatedDeliveryOf_54(t) == t + 54 * MsPerMinute

\* new Date(Date.now() + 45 * 60000)
EstimatedDeliveryOf(t) == t + DeliveryMinutes * MsPerMinute

OrderFieldsMissing_NoAmount(b) ==
    \/ Falsy(b.restaurantId)
    \/ Falsy(b.items)
    \/ Falsy(b.customerName)

\* !restaurantId || !items || !customerName || !totalAmount
OrderFieldsMissing(b) ==
    \/ Falsy(b.restaurantId)
    \/ Falsy(b.items)
    \/ Falsy(b.customerName)
    \/ Falsy(b.totalAmount)

\* a body with every field of an order
FullOrder ==
    [restaurantId |-> Str(HexId(1)), items |-> Str("[pizza]"),
     customerName |-> Str("A"), customerAddress |-> Str("12 Road"),
     customerPhone |-> Undef, totalAmount |-> Str("30")]

\* the request bodies explored: the full one, one per absent required
\* field, a zero amount, a malformed restaurantId
OrderBodies ==
    {FullOrder,
     [FullOrder EXCEPT !.restaurantId = Undef],
     [FullOrder EXCEPT !.items = Undef],
     [FullOrder EXCEPT !.customerName = Undef],
     [FullOrder EXCEPT !.totalAmount = Undef],
     [FullOrder EXCEPT !.totalAmount = Num(0)],
     [FullOrder EXCEPT !.restaurantId = Str("not-an-id")]}

\* the handler up to the await of insertOne: validation, getDb, the clock
\* reads of orderId (t1), estimatedDelivery (t2) and createdAt (t3)
PostOrderStart(r) ==
    /\ alive
    /\ req[r].op = "idle"
    /\ \E b \in OrderBodies, d1 \in SyncTicks, d2 \in SyncTicks :
         LET t1 == now
             t2 == t1 + d1
             t3 == t2 + d2
             q == [op |-> "PostOrder", pc |-> "insertOne", resp |-> 0, body |-> b]
             orderData == [orderId |-> OrderIdOf(t1),
                           restaurantId |-> ObjectId(b.restaurantId.s),
                           items |-> b.items.s,
                           customerName |-> b.customerName.s,
                           customerAddress |-> OrEmpty(b.customerAddress),
                           customerPhone |-> OrEmpty(b.customerPhone),
                           totalAmount |-> parseFloat(b.totalAmount),
                           status |-> "confirmed",
                           createdAt |-> t3,
                           estimatedDelivery |-> EstimatedDeliveryOf(t2)]
         IN  IF OrderFieldsMissing(b)
               THEN /\ Respond(r, q, 400)
                    /\ UNCHANGED now
               ELSE IF getDb.threw
               THEN /\ Catch(r, q)
                    /\ UNCHANGED now
               ELSE IF ObjectId(b.restaurantId.s) = 0
               THEN /\ t2 <= MaxClock
                    /\ now' = t2
                    /\ Catch(r, q)
               ELSE /\ t3 <= MaxClock
                    /\ Len(orders) < MaxOrders
                    /\ now' = t3
                    /\ req' = [req EXCEPT ![r] = [op |-> "PostOrder", pc |-> "insertOne",
                                                  resp |-> 0, body |-> b,
                                                  orderData |-> orderData]]
    /\ UNCHANGED <<alive, connVars, probe, storeVars>>

\* insertOne applied; 201 with the generated orderId
PostOrderInsert(r) ==
    /\ alive
    /\ req[r].op = "PostOrder" /\ req[r].pc = "insertOne"
    /\ orders' = Append(orders, [doc |-> req[r].orderData, _id |-> Len(orders) + 1])
    /\ Respond(r, [op |-> "PostOrder", pc |-> "insertOne", resp |-> 0,
                   body |-> req[r].body], 201)
    /\ UNCHANGED <<now, alive, connVars, probe, restaurants, menu_items, rides,
                 raiders, minted>>

----------------------------------------------------------------------------
(* POST /api/rides *)

validVehicleTypes == {"car", "bike", "auto"}

drivers ==
    [car  |-> <<"John Smith", "Sarah Johnson", "Mike Davis", "Emily Wilson", "David Brown">>,
     bike |-> <<"Alex Rider", "Sam Wilson", "Taylor Swift", "Chris Evans">>,
     auto |-> <<"Raj Kumar", "Amit Sharma", "Priya Singh", "Vikram Patel">>]

baseFares ==
    [car  |-> [min |-> 8, max |-> 25],
     bike |-> [min |-> 3, max |-> 12],
     auto |-> [min |-> 5, max |-> 15]]

ArrivalMinMinutes  == 5
ArrivalSpanMinutes == 10

\* vehicleDrivers[Math.floor(Math.random() * vehicleDrivers.length)], with
\* Math.random() = k / RandDenom
DriverOf(vehicleType, k) ==
    drivers[vehicleType][((k * Len(drivers[vehicleType])) \div RandDenom) + 1]

FareOf_WideRange(vehicleType, k) ==
    LET fareRange == baseFares[vehicleType]
    IN  ((k * (fareRange.max - fareRange.min + 2)) \div RandDenom) + fareRange.min

\* Math.floor(Math.random() * (max - min + 1)) + min
FareOf(vehicleType, k) ==
    LET fareRange == baseFares[vehicleType]
    IN  ((k * (fareRange.max - fareRange.min + 1)) \div RandDenom) + fareRange.min

\* new Date(Date.now() + (5 + Math.random() * 10) * 60000): the Date keeps
\* whole milliseconds
EstimatedArrivalOf(t, k) ==
    t + ((ArrivalMinMinutes * RandDenom + k * ArrivalSpanMinutes) * MsPerMinute) \div RandDenom

RideFieldsMissing_NoDestination(b) ==
    \/ Falsy(b.customerName)
    \/ Falsy(b.pickup)
    \/ Falsy(b.vehicleType)

\* !customerName || !pickup || !destination || !vehicleType
RideFieldsMissing(b) ==
    \/ Falsy(b.customerName)
    \/ Falsy(b.pickup)
    \/ Falsy(b.destination)
    \/ Falsy(b.vehicleType)

FullRide ==
    [customerName |-> Str("A"), pickup |-> Str("X"),
     destination |-> Str("Y"), vehicleType |-> Str("car")]

\* the request bodies explored: every vehicle type, one per absent required
\* field, an empty name, an unknown vehicle type
RideBodies ==
    {[FullRide EXCEPT !.vehicleType = Str(v)] : v \in validVehicleTypes} \cup
    {[FullRide EXCEPT !.customerName = Undef],
     [FullRide EXCEPT !.pickup = Undef],
     [FullRide EXCEPT !.destination = Undef],
     [FullRide EXCEPT !.vehicleType = Undef],
     [FullRide EXCEPT !.customerName = Str("")],
     [FullRide EXCEPT !.vehicleType = Str("bus")]}

\* the three draws of Math.random() of one booking (driver, fare, arrival)
\* explored: all three equal, and the two ends against each other
RideDraws ==
    {<<k, k, k>> : k \in RandNums} \cup
    {<<0, RandDenom - 1, 0>>, <<RandDenom - 1, 0, RandDenom - 1>>}

\* bookings accepted and not yet stored
Booking == {r \in Reqs : req[r].op = "PostRide" /\ req[r].pc = "insertOne"}

\* the handler up to the await of insertOne: validation, getDb, the draws,
\* the clock reads of estimatedArrival (t1) and createdAt (t2)
PostRideStart(r, Bodies, Draws) ==
    /\ alive
    /\ req[r].op = "idle"
    /\ \E b \in Bodies, k \in Draws, d1 \in SyncTicks :
         LET vehicleType == b.vehicleType.s
             t1 == now
             t2 == t1 + d1
             q == [op |-> "PostRide", pc |-> "insertOne", resp |-> 0, body |-> b]
         IN  IF RideFieldsMissing(b) \/ vehicleType \notin validVehicleTypes
               THEN /\ Respond(r, q, 400)
                    /\ UNCHANGED now
               ELSE IF getDb.threw
               THEN /\ Catch(r, q)
                    /\ UNCHANGED now
               ELSE /\ t2 <= MaxClock
                    /\ Len(rides) + Cardinality(Booking) < MaxRides
                    /\ now' = t2
                    /\ req' = [req EXCEPT ![r] =
                         [op |-> "PostRide", pc |-> "insertOne", resp |-> 0, body |-> b,
                          rideData |-> [customerName |-> b.customerName.s,
                                        pickup |-> b.pickup.s,
                                        destination |-> b.destination.s,
                                        vehicleType |-> vehicleType,
                                        driverName |-> DriverOf(vehicleType, k[1]),
                                        fare |-> FareOf(vehicleType, k[2]),
                                        estimatedArrival |-> EstimatedArrivalOf(t1, k[3]),
                                        status |-> "confirmed",
                                        createdAt |-> t2,
                                        updatedAt |-> 0]]]
    /\ UNCHANGED <<alive, connVars, probe, storeVars>>

\* insertOne applied; up to the await of findOne({ _id: result.insertedId })
PostRideInsert(r) ==
    /\ alive
    /\ req[r].op = "PostRide" /\ req[r].pc = "insertOne"
    /\ rides' = Append(rides, [doc |-> req[r].rideData, _id |-> Len(rides) + 1])
    /\ req' = [req EXCEPT ![r] = [op |-> "PostRide", pc |-> "findOne", resp |-> 0,
                                  body |-> req[r].body, insertedId |-> Len(rides) + 1]]
    /\ UNCHANGED <<now, alive, connVars, probe, restaurants, menu_items, orders,
                 raiders, minted>>

PostRideFind_NoReread(r) ==
    /\ alive
    /\ req[r].op = "PostRide" /\ req[r].pc = "findOne"
    /\ Respond(r, [op |-> "PostRide", pc |-> "findOne", resp |-> 0, body |-> req[r].body,
                   data |-> [rides[req[r].insertedId] EXCEPT !.doc.status = "confirmed",
                                                             !.doc.updatedAt = 0]], 201)
    /\ UNCHANGED <<now, alive, connVars, probe, storeVars>>

\* findOne applied; 201 with the document read
PostRideFind(r) ==
    /\ alive
    /\ req[r].op = "PostRide" /\ req[r].pc = "findOne"
    /\ Respond(r, [op |-> "PostRide", pc |-> "findOne", resp |-> 0, body |-> req[r].body,
                   data |-> rides[req[r].insertedId]], 201)
    /\ UNCHANGED <<now, alive, connVars, probe, storeVars>>

----------------------------------------------------------------------------
(* PATCH /api/rides/:id/status *)

validStatuses ==
    {"confirmed", "driver_assigned", "picked_up", "in_progress", "completed", "cancelled"}

\* the path ids explored: the rides that can exist, a missing one, a malformed one
RidePathIds == {HexId(n) : n \in 1..(MaxRides + 1)} \cup {"not-an-id"}

\* the body statuses explored: every valid one, an absent one, an unknown one
StatusInputs == {Str(s) : s \in validStatuses} \cup {Undef, Str("arrived")}

StatusValid_AnyString(v) == v.t = "string"

\* validStatuses.includes(status)
StatusValid(v) == v.t = "string" /\ v.s \in validStatuses

updateOne_TerminalKept(coll, oid, status, updatedAt) ==
    [i \in DOMAIN coll |->
        IF coll[i]._id = oid /\ coll[i].doc.status \notin {"completed", "cancelled"}
          THEN [coll[i] EXCEPT !.doc.status = status, !.doc.updatedAt = updatedAt]
          ELSE coll[i]]

updateOne_StatusOnly(coll, oid, status, updatedAt) ==
    [i \in DOMAIN coll |->
        IF coll[i]._id = oid
          THEN [coll[i] EXCEPT !.doc.status = status]
          ELSE coll[i]]

\* updateOne({ _id: oid }, { $set: { status, updatedAt } }) on rides
updateOne(coll, oid, status, updatedAt) ==
    [i \in DOMAIN coll |->
        IF coll[i]._id = oid
          THEN [coll[i] EXCEPT !.doc.status = status, !.doc.updatedAt = updatedAt]
          ELSE coll[i]]

\* the handler up to the await of updateOne: getDb, validation, the filter
\* and the update with its new Date()
PatchRideStatusStart(r) ==
    /\ alive
    /\ req[r].op = "idle"
    /\ \E id \in RidePathIds, status \in StatusInputs :
         LET q == [op |-> "PatchRideStatus", pc |-> "updateOne", resp |-> 0,
                   id |-> id, body |-> [status |-> status]]
         IN  IF getDb.threw
               THEN Catch(r, q)
               ELSE IF ~StatusValid(status)
               THEN Respond(r, q, 400)
               ELSE IF ObjectId(id) = 0
               THEN Catch(r, q)
               ELSE req' = [req EXCEPT ![r] =
                              [op |-> "PatchRideStatus", pc |-> "updateOne", resp |-> 0,
                               id |-> id, body |-> [status |-> status], updatedAt |-> now]]
    /\ UNCHANGED <<now, alive, connVars, probe, storeVars>>

\* the ride a path id addresses, 0 when it names none
Addressed(q) ==
    IF \E i \in DOMAIN rides : rides[i]._id = ObjectId(q.id)
      THEN CHOOSE i \in DOMAIN rides : rides[i]._id = ObjectId(q.id)
      ELSE 0

\* updateOne applied; 404 when nothing matched, else up to the await of findOne
PatchRideStatusUpdate(r) ==
    /\ alive
    /\ req[r].op = "PatchRideStatus" /\ req[r].pc = "updateOne"
    /\ LET oid == ObjectId(req[r].id)
           q == [op |-> "PatchRideStatus", pc |-> "findOne", resp |-> 0,
                 id |-> req[r].id, body |-> req[r].body]
       IN  IF \E i \in DOMAIN rides : rides[i]._id = oid
             THEN /\ rides' = updateOne(rides, oid, req[r].body.status.s, req[r].updatedAt)
                  /\ req' = [req EXCEPT ![r] = q]
             ELSE /\ UNCHANGED rides
                  /\ Respond(r, q, 404)
    /\ UNCHANGED <<now, alive, connVars, probe, restaurants, menu_items, orders,
                 raiders, minted>>

\* findOne applied; 200 with the document read
PatchRideStatusFind(r) ==
    /\ alive
    /\ req[r].op = "PatchRideStatus" /\ req[r].pc = "findOne"
    /\ LET oid == ObjectId(req[r].id)
       IN  Respond(r, [op |-> "PatchRideStatus", pc |-> "findOne", resp |-> 0,
                       id |-> req[r].id, body |-> req[r].body,
                       data |-> rides[CHOOSE i \in DOMAIN rides : rides[i]._id = oid]], 200)
    /\ UNCHANGED <<now, alive, connVars, probe, storeVars>>

----------------------------------------------------------------------------
(* POST /api/raiders, PUT /api/raiders/:id, DELETE /api/raiders/:id *)

MaxRaiders == 2

Bool(b)   == [t |-> "boolean", s |-> "", n |-> IF b THEN 1 ELSE 0]
DateAt(t) == [t |-> "date", s |-> "", n |-> t]

\* the fields of a raider explored
RaiderFields ==
    {"name", "status", "isActive", "totalDeliveries", "rating", "joinedDate", "lastActive"}

NoFields == [f \in RaiderFields |-> Undef]

Spread_KeepFirst(a, b) == [f \in RaiderFields |-> IF a[f] # Undef THEN a[f] ELSE b[f]]

\* { ...a, ...b }: the fields of b override those of a
Spread(a, b) == [f \in RaiderFields |-> IF b[f] # Undef THEN b[f] ELSE a[f]]

\* status: "available", isActive: true, totalDeliveries: 0, rating: 0,
\* joinedDate: new Date(), lastActive: new Date()
RaiderDefaults(t1, t2) ==
    [NoFields EXCEPT !.status = Str("available"), !.isActive = Bool(TRUE),
                     !.totalDeliveries = Num(0), !.rating = Num(0),
                     !.joinedDate = DateAt(t1), !.lastActive = DateAt(t2)]

\* the bodies explored for a new raider: every defaulted field submitted,
\* the two dates submitted, nothing
RaiderBodies ==
    {[NoFields EXCEPT !.name = Str("R"), !.status = Str("busy"), !.isActive = Bool(FALSE),
                      !.totalDeliveries = Num(50), !.rating = Num(5)],
     [NoFields EXCEPT !.name = Str("R"), !.joinedDate = Str("2020-01-01"),
                      !.lastActive = Str("2020-01-02")],
     NoFields}

\* the bodies explored for an update
RaiderUpdates ==
    {[NoFields EXCEPT !.status = Str("busy"), !.lastActive = Str("2020-01-02")]}

RaiderPathIds == {HexId(n) : n \in 1..MaxRaiders} \cup {"not-an-id"}

\* the handler up to the await of insertOne: getDb, the merged document with
\* its clock reads of joinedDate (t1) and lastActive (t2)
PostRaiderStart(r) ==
    /\ alive
    /\ req[r].op = "idle"
    /\ \E b \in RaiderBodies, d1 \in SyncTicks :
         LET t1 == now
             t2 == t1 + d1
             q == [op |-> "PostRaider", pc |-> "insertOne", resp |-> 0, body |-> b]
         IN  IF getDb.threw
               THEN /\ Catch(r, q)
                    /\ UNCHANGED now
               ELSE /\ t2 <= MaxClock
                    /\ minted < MaxRaiders
                    /\ now' = t2
                    /\ req' = [req EXCEPT ![r] =
                         [op |-> "PostRaider", pc |-> "insertOne", resp |-> 0, body |-> b,
                          raiderData |-> Spread(b, RaiderDefaults(t1, t2))]]
    /\ UNCHANGED <<alive, connVars, probe, storeVars>>

\* insertOne applied; 201 with { ...raiderData, _id: result.insertedId }
PostRaiderInsert(r) ==
    /\ alive
    /\ req[r].op = "PostRaider" /\ req[r].pc = "insertOne"
    /\ minted' = minted + 1
    /\ raiders' = raiders \cup {[doc |-> req[r].raiderData, _id |-> minted + 1]}
    /\ Respond(r, [op |-> "PostRaider", pc |-> "insertOne", resp |-> 0,
                   body |-> req[r].body,
                   data |-> [doc |-> req[r].raiderData, _id |-> minted + 1]], 201)
    /\ UNCHANGED <<now, alive, connVars, probe, restaurants, menu_items, orders, rides>>

\* the handler up to the await of updateOne: getDb, the filter, the $set
\* with its new Date()
PutRaiderStart(r) ==
    /\ alive
    /\ req[r].op = "idle"
    /\ \E id \in RaiderPathIds, b \in RaiderUpdates :
         LET q == [op |-> "PutRaider", pc |-> "updateOne", resp |-> 0,
                   id |-> id, body |-> b]
         IN  IF getDb.threw \/ ObjectId(id) = 0
               THEN Catch(r, q)
               ELSE req' = [req EXCEPT ![r] =
                              [op |-> "PutRaider", pc |-> "updateOne", resp |-> 0,
                               id |-> id, body |-> b,
                               set |-> Spread(b, [NoFields EXCEPT !.lastActive = DateAt(now)])]]
    /\ UNCHANGED <<now, alive, connVars, probe, storeVars>>

\* updateOne applied; 404 when nothing matched, else 200
PutRaiderUpdate(r) ==
    /\ alive
    /\ req[r].op = "PutRaider" /\ req[r].pc = "updateOne"
    /\ LET oid == ObjectId(req[r].id)
           q == [op |-> "PutRaider", pc |-> "updateOne", resp |-> 0,
                 id |-> req[r].id, body |-> req[r].body]
       IN  IF \E x \in raiders : x._id = oid
             THEN /\ raiders' = {IF x._id = oid
                                   THEN [x EXCEPT !.doc = Spread(x.doc, req[r].set)]
                                   ELSE x : x \in raiders}
                  /\ Respond(r, q, 200)
             ELSE /\ UNCHANGED raiders
                  /\ Respond(r, q, 404)
    /\ UNCHANGED <<now, alive, connVars, probe, restaurants, menu_items, orders, rides, minted>>

DeleteRaiderStart(r) ==
    /\ alive
    /\ req[r].op = "idle"
    /\ \E id \in RaiderPathIds :
         LET q == [op |-> "DeleteRaider", pc |-> "deleteOne", resp |-> 0, id |-> id]
         IN  IF getDb.threw \/ ObjectId(id) = 0
               THEN Catch(r, q)
               ELSE req' = [req EXCEPT ![r] = q]
    /\ UNCHANGED <<now, alive, connVars, probe, storeVars>>

\* deleteOne applied; 404 when nothing matched, else 200
DeleteRaiderOne(r) ==
    /\ alive
    /\ req[r].op = "DeleteRaider" /\ req[r].pc = "deleteOne"
    /\ LET oid == ObjectId(req[r].id)
       IN  IF \E x \in raiders : x._id = oid
             THEN /\ raiders' = {x \in raiders : x._id # oid}
                  /\ Respond(r, req[r], 200)
             ELSE /\ UNCHANGED raiders
                  /\ Respond(r, req[r], 404)
    /\ UNCHANGED <<now, alive, connVars, probe, restaurants, menu_items, orders, rides, minted>>

----------------------------------------------------------------------------
(* the read handlers *)

\* the restaurants are stored by another program; the name of each, if any
NameOf(oid) == IF oid = 1 THEN Str("Pizza Place") ELSE Undef

\* the orderIds asked for: the one generated at the first clock value, an
\* unknown one
OrderPathIds == {OrderIdOf(Epoch0), "RB0"}

\* the customer names asked for: the booked name in lower case, an unknown
\* name, a pattern that is no regular expression
CustomerPatterns == {"a", "z", "("}

\* new RegExp(pattern, 'i') throws a SyntaxError on an unbalanced parenthesis
RegExpThrows(pattern) == pattern = "("

Lower(s) == CASE s = "A" -> "a" [] s = "B" -> "b" [] OTHER -> s

\* { customerName: new RegExp(pattern, 'i') }: the names explored are single
\* letters, on which a case-insensitive search is equality up to case
RegExpMatches(pattern, s) == Lower(pattern) = Lower(s)

\* the orders a cursor sorted by createdAt descending can yield: documents of
\* equal createdAt come in either order
SortedByCreatedAtDesc(coll) ==
    IF coll = <<>>
      THEN {<<>>}
      ELSE {s \in {[i \in DOMAIN coll |-> coll[p[i]]] : p \in Permutations(DOMAIN coll)} :
               \A i \in DOMAIN s, j \in DOMAIN s :
                  i < j => s[i].doc.createdAt >= s[j].doc.createdAt}

\* a handler without a path parameter up to the await of toArray or find
ListStart(r, op) ==
    /\ alive
    /\ req[r].op = "idle"
    /\ LET q == [op |-> op, pc |-> "toArray", resp |-> 0]
       IN  IF getDb.threw
             THEN Catch(r, q)
             ELSE req' = [req EXCEPT ![r] = q]
    /\ UNCHANGED <<now, alive, connVars, probe, storeVars>>

\* toArray resolves with the documents read; 200 with data and count
ListRespond(r, op, Results) ==
    /\ alive
    /\ req[r].op = op /\ req[r].pc = "toArray"
    /\ \E data \in Results :
         Respond(r, req[r] @@ [data |-> data], 200)
    /\ UNCHANGED <<now, alive, connVars, probe, storeVars>>

\* a handler with a path id up to the await of its read: getDb, new ObjectId(id)
ByIdStart(r, op, Ids, pc) ==
    /\ alive
    /\ req[r].op = "idle"
    /\ \E id \in Ids :
         LET q == [op |-> op, pc |-> pc, resp |-> 0, id |-> id]
         IN  IF getDb.threw \/ ObjectId(id) = 0
               THEN Catch(r, q)
               ELSE req' = [req EXCEPT ![r] = q]
    /\ UNCHANGED <<now, alive, connVars, probe, storeVars>>

\* GET /api/restaurants
GetRestaurantsStart(r) == ListStart(r, "GetRestaurants")
GetRestaurantsRespond(r) == ListRespond(r, "GetRestaurants", {restaurants})

\* GET /api/restaurants/:id
GetRestaurantStart(r) == ByIdStart(r, "GetRestaurant", PathIds, "findOne")

\* findOne applied; 404 when no restaurant has the id, else 200 with it
GetRestaurantFind(r) ==
    /\ alive
    /\ req[r].op = "GetRestaurant" /\ req[r].pc = "findOne"
    /\ IF ObjectId(req[r].id) \in restaurants
         THEN Respond(r, req[r] @@ [data |-> ObjectId(req[r].id)], 200)
         ELSE Respond(r, req[r], 404)
    /\ UNCHANGED <<now, alive, connVars, probe, storeVars>>

\* GET /api/restaurants/:id/menu
GetRestaurantMenuStart(r) == ByIdStart(r, "GetRestaurantMenu", PathIds, "toArray")
GetRestaurantMenuRespond(r) ==
    ListRespond(r, "GetRestaurantMenu",
                {{m \in menu_items : m.restaurantId = ObjectId(req[r].id)}})

\* GET /api/menu-items
GetMenuItemsStart(r) == ListStart(r, "GetMenuItems")
GetMenuItemsRespond(r) == ListRespond(r, "GetMenuItems", {menu_items})

\* GET /api/orders/:orderId up to the await of findOne({ orderId })
GetOrderStart(r) ==
    /\ alive
    /\ req[r].op = "idle"
    /\ \E orderId \in OrderPathIds :
         LET q == [op |-> "GetOrder", pc |-> "findOne", resp |-> 0, orderId |-> orderId]
         IN  IF getDb.threw
               THEN Catch(r, q)
               ELSE req' = [req EXCEPT ![r] = q]
    /\ UNCHANGED <<now, alive, connVars, probe, storeVars>>

\* findOne applied: 404 when no order has the orderId, else the first such
\* order is kept up to the await of the restaurant's findOne
GetOrderFind(r) ==
    /\ alive
    /\ req[r].op = "GetOrder" /\ req[r].pc = "findOne"
    /\ LET found == {i \in DOMAIN orders : orders[i].doc.orderId = req[r].orderId}
       IN  IF found = {}
             THEN Respond(r, req[r], 404)
             ELSE req' = [req EXCEPT ![r] =
                            [op |-> "GetOrder", pc |-> "findRestaurant", resp |-> 0,
                             orderId |-> req[r].orderId,
                             order |-> orders[CHOOSE i \in found : \A j \in found : i <= j]]]
    /\ UNCHANGED <<now, alive, connVars, probe, storeVars>>

\* the restaurant's findOne applied; 200 with the order and
\* restaurant?.name || 'Unknown Restaurant'
GetOrderRestaurant(r) ==
    /\ alive
    /\ req[r].op = "GetOrder" /\ req[r].pc = "findRestaurant"
    /\ LET rid == req[r].order.doc.restaurantId
           restaurantName == IF rid \in restaurants /\ ~Falsy(NameOf(rid))
                               THEN NameOf(rid).s
                               ELSE "Unknown Restaurant"
       IN  Respond(r, [op |-> "GetOrder", pc |-> "findRestaurant", resp |-> 0,
                       orderId |-> req[r].orderId,
                       data |-> [order |-> req[r].order,
                                 restaurantName |-> restaurantName]], 200)
    /\ UNCHANGED <<now, alive, connVars, probe, storeVars>>

\* GET /api/rides
GetRidesStart(r) == ListStart(r, "GetRides")
GetRidesRespond(r) == ListRespond(r, "GetRides", SortedByCreatedAtDesc(rides))

\* GET /api/rides/:id
GetRideStart(r) == ByIdStart(r, "GetRide", RidePathIds, "findOne")

\* findOne applied; 404 when no ride has the id, else 200 with it
GetRideFind(r) ==
    /\ alive
    /\ req[r].op = "GetRide" /\ req[r].pc = "findOne"
    /\ IF Addressed(req[r]) = 0
         THEN Respond(r, req[r], 404)
         ELSE Respond(r, req[r] @@ [data |-> rides[Addressed(req[r])]], 200)
    /\ UNCHANGED <<now, alive, connVars, probe, storeVars>>

\* GET /api/rides/customer/:customerName up to the await of toArray: getDb,
\* new RegExp(customerName, 'i')
GetCustomerRidesStart(r) ==
    /\ alive
    /\ req[r].op = "idle"
    /\ \E customerName \in CustomerPatterns :
         LET q == [op |-> "GetCustomerRides", pc |-> "toArray", resp |-> 0,
                   customerName |-> customerName]
         IN  IF getDb.threw \/ RegExpThrows(customerName)
               THEN Catch(r, q)
               ELSE req' = [req EXCEPT ![r] = q]
    /\ UNCHANGED <<now, alive, connVars, probe, storeVars>>

GetCustomerRidesRespond(r) ==
    ListRespond(r, "GetCustomerRides",
                SortedByCreatedAtDesc(
                    SelectSeq(rides, LAMBDA x :
                        RegExpMatches(req[r].customerName, x.doc.customerName))))

\* GET /api/raiders
GetRaidersStart(r) == ListStart(r, "GetRaiders")
GetRaidersRespond(r) == ListRespond(r, "GetRaiders", {raiders})

----------------------------------------------------------------------------
(* Specifications *)

InitProcess ==
    /\ now = Epoch0
    /\ alive = TRUE
    /\ db = 0
    /\ client = 0
    /\ opened = 0
    /\ conn = [c \in ConnCalls |-> IdleConn]
    /\ probe = [calls |-> 0, threw |-> FALSE, handle |-> 0]
    /\ raiders = {}
    /\ minted = 0
    /\ req = [r \in Reqs |-> IdleReq]

\* the connection manager under any calls of connectToDatabase and getDb
InitConn ==
    /\ InitProcess
    /\ restaurants = {}
    /\ menu_items = {}
    /\ orders = <<>>
    /\ rides = <<>>

NextConn ==
    \/ \E c \in ConnCalls : ConnectCall(c)
    \/ \E c \in ConnCalls : ConnectResolve(c)
    \/ \E c \in ConnCalls : ConnectFail(c)
    \/ CallGetDb
    \/ Tick

SpecConn == InitConn /\ [][NextConn]_vars

\* the restaurant and menu item handlers, over every store content
RestaurantIds == 1..MaxRestaurants
MenuItemIds   == 1..MaxMenuItems

InitFood ==
    /\ InitProcess
    /\ restaurants \in SUBSET RestaurantIds
    /\ \E owner \in [MenuItemIds -> 0..(MaxRestaurants + 1)] :
         menu_items = {[_id |-> m, restaurantId |-> owner[m]] :
                          m \in {x \in MenuItemIds : owner[x] # 0}}
    /\ orders = <<>>
    /\ rides = <<>>

NextFood ==
    \/ \E c \in Startup : ConnectCall(c)
    \/ \E c \in Startup : ConnectResolve(c)
    \/ \E c \in Startup : ConnectFail(c)
    \/ \E r \in Reqs : DeleteRestaurantStart(r)
    \/ \E r \in Reqs : DeleteRestaurantOne(r)
    \/ \E r \in Reqs : DeleteRestaurantMany(r)
    \/ \E r \in Reqs : DeleteMenuItemStart(r)
    \/ \E r \in Reqs : DeleteMenuItemOne(r)
    \/ \E r \in Reqs : StoreFail(r)
    \/ \E r \in Reqs : Forget(r)

SpecFood == InitFood /\ [][NextFood]_vars

\* order placement
InitOrders ==
    /\ InitProcess
    /\ restaurants \in {{}, {1}}
    /\ menu_items = {}
    /\ orders = <<>>
    /\ rides = <<>>

NextOrders ==
    \/ \E c \in Startup : ConnectCall(c)
    \/ \E c \in Startup : ConnectResolve(c)
    \/ \E c \in Startup : ConnectFail(c)
    \/ Tick
    \/ \E r \in Reqs : PostOrderStart(r)
    \/ \E r \in Reqs : PostOrderInsert(r)
    \/ \E r \in Reqs : StoreFail(r)
    \/ \E r \in Reqs : Forget(r)

SpecOrders == InitOrders /\ [][NextOrders]_vars

\* ride booking, under every body and every draw
InitBooking ==
    /\ InitProcess
    /\ restaurants = {}
    /\ menu_items = {}
    /\ orders = <<>>
    /\ rides = <<>>

NextBooking ==
    \/ \E c \in Startup : ConnectCall(c)
    \/ \E c \in Startup : ConnectResolve(c)
    \/ \E c \in Startup : ConnectFail(c)
    \/ Tick
    \/ \E r \in Reqs : PostRideStart(r, RideBodies, RideDraws)
    \/ \E r \in Reqs : PostRideInsert(r)
    \/ \E r \in Reqs : PostRideFind(r)
    \/ \E r \in Reqs : StoreFail(r)
    \/ \E r \in Reqs : Forget(r)

SpecBooking == InitBooking /\ [][NextBooking]_vars

\* ride booking and ride status updates, over a store that may hold a ride
\* of an earlier run in any status
StoredRide(s) ==
    [doc |-> [customerName |-> "B", pickup |-> "P", destination |-> "Q",
              vehicleType |-> "bike", driverName |-> "Sam Wilson", fare |-> 7,
              estimatedArrival |-> Epoch0 - 1, status |-> s,
              createdAt |-> Epoch0 - 2, updatedAt |-> 0],
     _id |-> 1]

InitRides ==
    /\ InitProcess
    /\ restaurants = {}
    /\ menu_items = {}
    /\ orders = <<>>
    /\ rides \in {<<>>} \cup {<<StoredRide(s)>> : s \in validStatuses}

NextRides ==
    \/ \E c \in Startup : ConnectCall(c)
    \/ \E c \in Startup : ConnectResolve(c)
    \/ \E c \in Startup : ConnectFail(c)
    \/ \E r \in Reqs : PostRideStart(r, {FullRide}, {<<0, 0, 0>>})
    \/ \E r \in Reqs : PostRideInsert(r)
    \/ \E r \in Reqs : PostRideFind(r)
    \/ \E r \in Reqs : PatchRideStatusStart(r)
    \/ \E r \in Reqs : PatchRideStatusUpdate(r)
    \/ \E r \in Reqs : PatchRideStatusFind(r)
    \/ \E r \in Reqs : StoreFail(r)
    \/ \E r \in Reqs : Forget(r)

SpecRides == InitRides /\ [][NextRides]_vars

\* the raider handlers
InitRaiders ==
    /\ InitProcess
    /\ restaurants = {}
    /\ menu_items = {}
    /\ orders = <<>>
    /\ rides = <<>>

NextRaiders ==
    \/ \E c \in Startup : ConnectCall(c)
    \/ \E c \in Startup : ConnectResolve(c)
    \/ \E c \in Startup : ConnectFail(c)
    \/ \E r \in Reqs : PostRaiderStart(r)
    \/ \E r \in Reqs : PostRaiderInsert(r)
    \/ \E r \in Reqs : PutRaiderStart(r)
    \/ \E r \in Reqs : PutRaiderUpdate(r)
    \/ \E r \in Reqs : DeleteRaiderStart(r)
    \/ \E r \in Reqs : DeleteRaiderOne(r)
    \/ \E r \in Reqs : StoreFail(r)
    \/ \E r \in Reqs : Forget(r)

SpecRaiders == InitRaiders /\ [][NextRaiders]_vars

\* the whole server: every handler, requests served one at a time, the clock
\* held still, over a store holding restaurants and their menu items
Serial == {1}

\* the inputs explored of the handlers that take a body
Chosen(r) ==
    LET q == req'[r]
    IN  /\ now' = now
        /\ q.op = "PostOrder" =>
              q.body \in {FullOrder, [FullOrder EXCEPT !.totalAmount = Undef],
                          [FullOrder EXCEPT !.restaurantId = Str("not-an-id")]}
        /\ q.op = "PatchRideStatus" =>
              q.body.status \in {Str("completed"), Str("arrived")}
        /\ q.op = "PostRaider" => q.body.status # Undef

Init ==
    /\ InitProcess
    /\ restaurants = RestaurantIds
    /\ menu_items = {[_id |-> m, restaurantId |-> ((m - 1) % MaxRestaurants) + 1] :
                        m \in MenuItemIds}
    /\ orders = <<>>
    /\ rides = <<>>

Next ==
    \/ \E c \in Startup : ConnectCall(c)
    \/ \E c \in Startup : ConnectResolve(c)
    \/ \E c \in Startup : ConnectFail(c)
    \/ \E r \in Serial : GetRestaurantsStart(r)
    \/ \E r \in Serial : GetRestaurantsRespond(r)
    \/ \E r \in Serial : GetRestaurantStart(r)
    \/ \E r \in Serial : GetRestaurantFind(r)
    \/ \E r \in Serial : GetRestaurantMenuStart(r)
    \/ \E r \in Serial : GetRestaurantMenuRespond(r)
    \/ \E r \in Serial : PostOrderStart(r) /\ Chosen(r)
    \/ \E r \in Serial : PostOrderInsert(r)
    \/ \E r \in Serial : GetOrderStart(r)
    \/ \E r \in Serial : GetOrderFind(r)
    \/ \E r \in Serial : GetOrderRestaurant(r)
    \/ \E r \in Serial : DeleteRestaurantStart(r)
    \/ \E r \in Serial : DeleteRestaurantOne(r)
    \/ \E r \in Serial : DeleteRestaurantMany(r)
    \/ \E r \in Serial : DeleteMenuItemStart(r)
    \/ \E r \in Serial : DeleteMenuItemOne(r)
    \/ \E r \in Serial : GetMenuItemsStart(r)
    \/ \E r \in Serial : GetMenuItemsRespond(r)
    \/ \E r \in Serial : PostRideStart(r, {FullRide, [FullRide EXCEPT !.vehicleType = Str("bus")]},
                                       {<<0, 0, 0>>}) /\ Chosen(r)
    \/ \E r \in Serial : PostRideInsert(r)
    \/ \E r \in Serial : PostRideFind(r)
    \/ \E r \in Serial : GetRidesStart(r)
    \/ \E r \in Serial : GetRidesRespond(r)
    \/ \E r \in Serial : GetRideStart(r)
    \/ \E r \in Serial : GetRideFind(r)
    \/ \E r \in Serial : GetCustomerRidesStart(r)
    \/ \E r \in Serial : GetCustomerRidesRespond(r)
    \/ \E r \in Serial : PatchRideStatusStart(r) /\ Chosen(r)
    \/ \E r \in Serial : PatchRideStatusUpdate(r)
    \/ \E r \in Serial : PatchRideStatusFind(r)
    \/ \E r \in Serial : GetRaidersStart(r)
    \/ \E r \in Serial : GetRaidersRespond(r)
    \/ \E r \in Serial : PostRaiderStart(r) /\ Chosen(r)
    \/ \E r \in Serial : PostRaiderInsert(r)
    \/ \E r \in Serial : PutRaiderStart(r)
    \/ \E r \in Serial : PutRaiderUpdate(r)
    \/ \E r \in Serial : DeleteRaiderStart(r)
    \/ \E r \in Serial : DeleteRaiderOne(r)
    \/ \E r \in Serial : StoreFail(r)
    \/ \E r \in Serial : Forget(r)

Spec == Init /\ [][Next]_vars

----------------------------------------------------------------------------
(* Properties *)

\* request slot r's handler of operation op takes this step
Acts(r, op) == req'[r] # req[r] /\ req'[r].op = op

\* C1: every step of a DELETE /api/restaurants/:id handler leaves the menu
\* items of the other restaurants present and unchanged, and the step that
\* answers 200 leaves the store without the restaurant and without any menu
\* item whose restaurantId is that id.
C1_DeleteRestaurantCascades ==
    [][\A r \in Reqs :
         Acts(r, "DeleteRestaurant") =>
           LET oid == ObjectId(req'[r].id)
           IN  /\ {m \in menu_items' : m.restaurantId # oid}
                    = {m \in menu_items : m.restaurantId # oid}
               /\ req'[r].resp = 200 =>
                    /\ oid \notin restaurants'
                    /\ \A m \in menu_items' : m.restaurantId # oid]_vars

\* a delete answered 200 whose cascade removed menu items while another
\* restaurant's menu item is still stored
C1_Witness ==
    \E r \in Reqs :
        /\ req[r].op = "DeleteRestaurant"
        /\ req[r].resp = 200
        /\ req[r].deletedCount >= 1
        /\ \E m \in menu_items : m.restaurantId # ObjectId(req[r].id)

\* C2: no two stored orders have the same orderId.
C2_OrderIdsUnique ==
    \A i, j \in DOMAIN orders :
        i # j => orders[i].doc.orderId # orders[j].doc.orderId

RideStatuses ==
    {"confirmed", "driver_assigned", "picked_up", "in_progress", "completed", "cancelled"}

\* C3: the status of every stored ride is one of the six enumerated values.
C3_RideStatusEnumerated ==
    \A i \in DOMAIN rides : rides[i].doc.status \in RideStatuses

\* a ride booked by this process whose status an update has since set
C3_Witness ==
    \E i \in DOMAIN rides :
        /\ rides[i].doc.createdAt >= Epoch0
        /\ rides[i].doc.updatedAt # 0
        /\ rides[i].doc.status = "in_progress"

\* the body carries no status, or one outside the enumerated set
StatusNotEnumerated(b) == ~(b.status.t = "string" /\ b.status.s \in RideStatuses)

\* C4 as stated: a status update whose status is not enumerated is answered
\* 400 and writes nothing to rides.
C4_InvalidStatusIs400 ==
    [][\A r \in Reqs :
         (Acts(r, "PatchRideStatus") /\ StatusNotEnumerated(req'[r].body)) =>
            /\ req'[r].resp = 400
            /\ rides' = rides]_vars

\* C4 as amended: a status update whose status is not enumerated writes
\* nothing to rides, and is answered 400 when the store handle is
\* initialized and 500 when it is not.
C4_InvalidStatusNoWrite ==
    [][\A r \in Reqs :
         (Acts(r, "PatchRideStatus") /\ StatusNotEnumerated(req'[r].body)) =>
            /\ req'[r].resp = IF db = 0 THEN 500 ELSE 400
            /\ rides' = rides]_vars

\* an update without a status, addressed to a stored ride, was answered 400
C4_Witness ==
    \E r \in Reqs :
        /\ req[r].op = "PatchRideStatus"
        /\ req[r].resp = 400
        /\ req[r].body.status = Undef
        /\ \E i \in DOMAIN rides : rides[i]._id = ObjectId(req[r].id)

\* C5: a booking with customerName, pickup, destination or vehicleType
\* absent, or with a vehicleType other than car, bike, auto, is answered 400
\* and leaves rides as it was.
C5_InvalidBookingRejected ==
    [][\A r \in Reqs :
         (/\ Acts(r, "PostRide")
          /\ \/ Undef \in {req'[r].body.customerName, req'[r].body.pickup,
                           req'[r].body.destination, req'[r].body.vehicleType}
             \/ req'[r].body.vehicleType.s \notin {"car", "bike", "auto"}) =>
            /\ req'[r].resp = 400
            /\ rides' = rides]_vars

\* a booking for a bus was answered 400 while a ride is stored
C5_Witness ==
    \E r \in Reqs :
        /\ req[r].op = "PostRide"
        /\ req[r].resp = 400
        /\ req[r].body.vehicleType = Str("bus")
        /\ Len(rides) >= 1

FareLimits ==
    [car |-> 8..25, bike |-> 3..12, auto |-> 5..15]

\* C6: an accepted booking computes a fare within its vehicle type's range
\* and an estimatedArrival 5 to 15 minutes after the clock value of the
\* request; these are the values stored, and the values returned.
C6_FareAndArrivalInRange ==
    [][\A r \in Reqs :
         Acts(r, "PostRide") =>
            /\ (req'[r].pc = "insertOne" /\ req'[r].resp = 0) =>
                 LET d == req'[r].rideData
                 IN  /\ d.fare \in FareLimits[d.vehicleType]
                     /\ d.estimatedArrival \in (now + 5 * 60000)..(now + 15 * 60000)
            /\ req'[r].pc = "findOne" =>
                 LET d == rides'[req'[r].insertedId].doc
                 IN  /\ d.fare = req[r].rideData.fare
                     /\ d.estimatedArrival = req[r].rideData.estimatedArrival
            /\ req'[r].resp = 201 =>
                 LET d == rides[req[r].insertedId].doc
                 IN  /\ req'[r].data.doc.fare = d.fare
                     /\ req'[r].data.doc.fare \in FareLimits[d.vehicleType]
                     /\ req'[r].data.doc.estimatedArrival = d.estimatedArrival]_vars

\* a car booking answered 201 with the highest fare of its range
C6_Witness ==
    \E r \in Reqs :
        /\ req[r].op = "PostRide"
        /\ req[r].resp = 201
        /\ req[r].data.doc.vehicleType = "car"
        /\ req[r].data.doc.fare = 25

\* C7: an order without restaurantId, items, customerName or totalAmount is
\* answered 400 and leaves orders as it was.
C7_IncompleteOrderRejected ==
    [][\A r \in Reqs :
         (/\ Acts(r, "PostOrder")
          /\ Undef \in {req'[r].body.restaurantId, req'[r].body.items,
                        req'[r].body.customerName, req'[r].body.totalAmount}) =>
            /\ req'[r].resp = 400
            /\ orders' = orders]_vars

\* an order without totalAmount was answered 400 while an order is stored
C7_Witness ==
    \E r \in Reqs :
        /\ req[r].op = "PostOrder"
        /\ req[r].resp = 400
        /\ req[r].body.totalAmount = Undef
        /\ req[r].body.restaurantId # Undef
        /\ Len(orders) >= 1

\* C8: the step of an order placement that answers 201 appends exactly one
\* document, with status confirmed, an orderId of 'RB' and a clock value
\* read in the handler, and an estimatedDelivery 45 minutes after createdAt
\* less the clock advance between the two reads; no other step of the
\* handler changes orders.
C8_OrderPlaced ==
    [][\A r \in Reqs :
         Acts(r, "PostOrder") =>
            IF req'[r].resp = 201
              THEN /\ Len(orders') = Len(orders) + 1
                   /\ SubSeq(orders', 1, Len(orders)) = orders
                   /\ ~OrderFieldsMissing(req'[r].body)
                   /\ LET d == orders'[Len(orders')].doc
                      IN  /\ d.status = "confirmed"
                          /\ \E t \in (d.createdAt - 2 * MaxSyncTicks)..d.createdAt :
                                d.orderId = "RB" \o ToString(t)
                          /\ (d.createdAt + 45 * 60000) - d.estimatedDelivery
                                \in 0..MaxSyncTicks
              ELSE orders' = orders]_vars

\* an order answered 201 whose createdAt was read a millisecond after the
\* clock value of its estimatedDelivery
C8_Witness ==
    \E r \in Reqs :
        /\ req[r].op = "PostOrder"
        /\ req[r].resp = 201
        /\ \E i \in DOMAIN orders :
              /\ orders[i].doc.estimatedDelivery = orders[i].doc.createdAt + 45 * 60000 - 1
              /\ orders[i].doc.customerName = req[r].body.customerName.s

\* C9: connectToDatabase opens at most one connection whatever the calls, and
\* every call that has returned returned the cached handle.
C9_ConnectIdempotent ==
    /\ opened <= 1
    /\ \A c \in ConnCalls : conn[c].pc = "returned" => conn[c].ret = db

\* C10: a getDb call returns the cached handle exactly when some
\* connectToDatabase call has returned, throws otherwise, and never changes
\* the connection state.
C10_GetDbAfterConnect ==
    [][probe'.calls # probe.calls =>
         /\ ~probe'.threw <=> \E c \in ConnCalls : conn[c].pc = "returned"
         /\ ~probe'.threw => (probe'.handle = db /\ db # 0)
         /\ UNCHANGED connVars]_vars

\* getDb threw while the startup connect was still awaiting the connection
C10_Witness ==
    /\ probe.calls >= 1
    /\ probe.threw
    /\ \E c \in ConnCalls : conn[c].pc = "awaiting"

C12_BookingReturnsConfirmed ==
    [][\A r \in Reqs :
         (Acts(r, "PostRide") /\ req'[r].resp = 201) =>
            req'[r].data.doc.status = "confirmed"]_vars

\* C12 as amended: a booking answered 201 returns the document as stored at
\* the re-read, whose status is confirmed unless a status update has been
\* applied to the ride since its insert.
C12_BookingReturnsStored ==
    [][\A r \in Reqs :
         (Acts(r, "PostRide") /\ req'[r].resp = 201) =>
            /\ req'[r].data = rides[req[r].insertedId]
            /\ \/ req'[r].data.doc.status = "confirmed"
               \/ req'[r].data.doc.updatedAt # 0]_vars

\* a booking answered 201 with a cancelled ride
C12_Witness ==
    \E r \in Reqs :
        /\ req[r].op = "PostRide"
        /\ req[r].resp = 201
        /\ req[r].data.doc.status = "cancelled"

\* C15: the status or updatedAt of a ride changes only in the step that
\* applies one status update, which sets both from that one request and
\* leaves the rest of the ride and the other rides alone; the stored status
\* is then the status of the update applied last.
C15_LastWriteWins ==
    [][/\ Len(rides') >= Len(rides)
       /\ \A i \in DOMAIN rides :
             rides'[i] # rides[i] =>
               \E r \in Reqs :
                  /\ req[r].op = "PatchRideStatus" /\ req[r].pc = "updateOne"
                  /\ req'[r].pc = "findOne"
                  /\ rides[i]._id = ObjectId(req[r].id)
                  /\ rides'[i] = [rides[i] EXCEPT !.doc.status = req[r].body.status.s,
                                                  !.doc.updatedAt = req[r].updatedAt]
       /\ \A r \in Reqs :
             (req[r].op = "PatchRideStatus" /\ req[r].pc = "updateOne"
                 /\ req'[r].pc = "findOne") =>
               /\ rides'[Addressed(req[r])].doc.status = req[r].body.status.s
               /\ rides'[Addressed(req[r])].doc.updatedAt = req[r].updatedAt]_vars

\* two updates of one ride with different statuses, both applied and neither
\* answered yet
C15_Witness ==
    \E r1, r2 \in Reqs :
        /\ r1 # r2
        /\ req[r1].op = "PatchRideStatus" /\ req[r1].pc = "findOne"
        /\ req[r2].op = "PatchRideStatus" /\ req[r2].pc = "findOne"
        /\ req[r1].id = req[r2].id
        /\ req[r1].body.status # req[r2].body.status
        /\ rides[Addressed(req[r1])].doc.status = req[r2].body.status.s

\* the handler of a restaurant delete ends in this step, after its deleteOne
\* removed the restaurant, with menu items of the restaurant still stored
CascadeFailed(r) ==
    /\ req[r].op = "DeleteRestaurant" /\ req[r].pc = "deleteMany"
    /\ req'[r].resp # 0
    /\ \E m \in menu_items' : m.restaurantId = ObjectId(req[r].id)

\* C14: when the cascade delete fails after the restaurant was deleted, the
\* caller receives the response of a successful delete.
C14_CascadeFailureAnswered200 ==
    [][\A r \in Reqs : CascadeFailed(r) => req'[r].resp = 200]_vars

\* C16: a restaurant once removed is never stored again, and the step that
\* removes a restaurant removes no menu item.
C16_NoRollback ==
    [][/\ restaurants' \subseteq restaurants
       /\ restaurants' # restaurants => menu_items' = menu_items]_vars

\* between the two store calls of a restaurant delete, with a menu item of
\* the removed restaurant still stored, a second delete of the same
\* restaurant was answered 404
C16_Witness ==
    \E r1, r2 \in Reqs :
        /\ req[r1].op = "DeleteRestaurant" /\ req[r1].pc = "deleteMany"
        /\ req[r2].op = "DeleteRestaurant" /\ req[r2].resp = 404
        /\ req[r2].id = req[r1].id
        /\ ObjectId(req[r1].id) \notin restaurants
        /\ \E m \in menu_items : m.restaurantId = ObjectId(req[r1].id)

Defaulted == {"status", "isActive", "totalDeliveries", "rating"}

\* C18 as stated: the raider inserted and returned has status available,
\* isActive true, totalDeliveries 0 and rating 0, and every other submitted
\* field as submitted.
C18_DefaultsOverrideOnlyFour ==
    [][\A r \in Reqs :
         (Acts(r, "PostRaider") /\ req'[r].resp = 201) =>
            LET d == req'[r].data
                b == req'[r].body
            IN  /\ d \in raiders' /\ d \notin raiders
                /\ d.doc.status = Str("available") /\ d.doc.isActive = Bool(TRUE)
                /\ d.doc.totalDeliveries = Num(0) /\ d.doc.rating = Num(0)
                /\ \A f \in RaiderFields \ Defaulted :
                      b[f] # Undef => d.doc[f] = b[f]]_vars

\* C18 as amended: the raider inserted and returned has status available,
\* isActive true, totalDeliveries 0 and rating 0, its joinedDate and
\* lastActive are clock values of the request, and every other submitted
\* field is as submitted.
C18_DefaultsOverride ==
    [][\A r \in Reqs :
         (Acts(r, "PostRaider") /\ req'[r].resp = 201) =>
            LET d == req'[r].data
                b == req'[r].body
            IN  /\ d \in raiders' /\ d \notin raiders
                /\ d.doc.status = Str("available") /\ d.doc.isActive = Bool(TRUE)
                /\ d.doc.totalDeliveries = Num(0) /\ d.doc.rating = Num(0)
                /\ d.doc.joinedDate.t = "date" /\ d.doc.lastActive.t = "date"
                /\ d.doc.joinedDate.n \in Epoch0..now
                /\ d.doc.lastActive.n \in d.doc.joinedDate.n..now
                /\ \A f \in RaiderFields \ (Defaulted \cup {"joinedDate", "lastActive"}) :
                      b[f] # Undef => d.doc[f] = b[f]]_vars

\* a raider submitted as busy, inactive, with deliveries and a rating was
\* answered 201 and is stored with its name
C18_Witness ==
    \E r \in Reqs :
        /\ req[r].op = "PostRaider"
        /\ req[r].resp = 201
        /\ req[r].body.status = Str("busy")
        /\ req[r].body.rating = Num(5)
        /\ req[r].data \in raiders
        /\ req[r].data.doc.name = Str("R")

\* the request was turned down by the validation of its handler
Rejected(q) ==
    \/ q.op = "PostOrder" /\ OrderFieldsMissing(q.body)
    \/ q.op = "PostRide" /\ (RideFieldsMissing(q.body)
                              \/ q.body.vehicleType.s \notin validVehicleTypes)
    \/ q.op = "PatchRideStatus" /\ ~StatusValid(q.body.status)

\* the handlers whose validation precedes their call of getDb
ValidatesFirst == {"PostOrder", "PostRide"}

\* a request is awaiting a store operation
InFlight(r) == req[r].op # "idle" /\ req[r].resp = 0

\* the steps that resolve the store operation a request awaits
Resolves(r) ==
    \/ GetRestaurantsRespond(r) \/ GetRestaurantFind(r) \/ GetRestaurantMenuRespond(r)
    \/ PostOrderInsert(r) \/ GetOrderFind(r) \/ GetOrderRestaurant(r)
    \/ DeleteRestaurantOne(r) \/ DeleteRestaurantMany(r) \/ DeleteMenuItemOne(r)
    \/ GetMenuItemsRespond(r) \/ PostRideInsert(r) \/ PostRideFind(r)
    \/ GetRidesRespond(r) \/ GetRideFind(r) \/ GetCustomerRidesRespond(r)
    \/ PatchRideStatusUpdate(r) \/ PatchRideStatusFind(r)
    \/ GetRaidersRespond(r) \/ PostRaiderInsert(r) \/ PutRaiderUpdate(r)
    \/ DeleteRaiderOne(r)

\* C13: a request that is answered is answered once, with a status the
\* handlers send; a request that is not yet answered is awaiting a store
\* operation of a live process whose resolution lets the handler go on; a
\* handler that finds the store handle uninitialized, cannot parse its path
\* id, or whose store operation throws, answers 500.
C13_FailuresAnswered500 ==
    /\ [](\A r \in Reqs : InFlight(r) =>
              /\ alive
              /\ req[r].pc # "caught"
              /\ ENABLED Resolves(r))
    /\ [][\A r \in Reqs :
            LET q  == req[r]
                q2 == req'[r]
            IN  q2 # q =>
                  /\ q.resp # 0 => q2 = IdleReq
                  /\ q2.resp \in {0, 200, 201, 400, 404, 500}
                  /\ q2.resp = 400 => Rejected(q2)
                  /\ q2.pc = "caught" => q2.resp = 500
                  /\ (q.op = "idle" /\ db = 0) =>
                        q2.resp = IF q2.op \in ValidatesFirst /\ Rejected(q2)
                                    THEN 400 ELSE 500
                  /\ (q.op = "idle" /\ "id" \in DOMAIN q2 /\ ObjectId(q2.id) = 0) =>
                        q2.resp = IF db # 0 /\ Rejected(q2) THEN 400 ELSE 500]_vars

\* a GET /api/restaurants/:id whose findOne threw was answered 500, and so
\* was a request that came before the connection was made
C13_Witness ==
    \E r \in Reqs :
        /\ req[r].op = "GetRestaurant"
        /\ req[r].pc = "caught"
        /\ req[r].resp = 500
        /\ db # 0
        /\ ObjectId(req[r].id) \in restaurants

\* C17: no step changes or removes a stored order, and the only step that
\* changes the orders collection is the one of a POST /api/orders that
\* answers 201, which adds exactly one document.
C17_OrdersImmutable ==
    [][/\ \A i \in DOMAIN orders : i \in DOMAIN orders' /\ orders'[i] = orders[i]
       /\ orders' # orders =>
             /\ Len(orders') = Len(orders) + 1
             /\ \E r \in Reqs : Acts(r, "PostOrder") /\ req'[r].resp = 201]_vars

\* an order is stored, its restaurant has since been deleted by a request
\* answered 200, and the order is as it was placed
C17_Witness ==
    /\ Len(orders) >= 1
    /\ orders[1].doc.status = "confirmed"
    /\ orders[1].doc.restaurantId \notin restaurants
    /\ \E r \in Reqs :
          /\ req[r].op = "DeleteRestaurant"
          /\ req[r].resp = 200
          /\ ObjectId(req[r].id) = orders[1].doc.restaurantId

====
